---- MODULE Spec2Model ----
(***************************************************************************)
(* Sentinel-1 / Sentinel-2 monthly feature extraction.                     *)
(*                                                                         *)
(* The model follows the three source files:                               *)
(*   index.py       the run: GEE session, the two composite builders, the  *)
(*                  batch split, the thread pool and its result loop;      *)
(*   s1_service.py  the radar builder and the radar exporter;              *)
(*   s2_service.py  the optical builder and the optical exporter.          *)
(*                                                                         *)
(* A failure of a call into the backend, the file system or the input is   *)
(* an input of the model: each place where the code can raise chooses      *)
(* between success and the exceptions that place can raise, at most        *)
(* MaxFaults failures per run.                                             *)
(***************************************************************************)
EXTENDS Integers, Sequences, FiniteSets, TLC

VARIABLES
    mainPc,      \* position of the main thread of index.py
    regionOk,    \* whether Tumkur.geojson exists and holds a geometry
    df_input,    \* the input rows (index.py:36): index label and coordinates
    masked,      \* the (sensor, month, id) whose pixel holds no data
    catalog,     \* the scenes of the backend's archive and their composites
    batch_size,  \* index.py:45
    i,           \* loop index of the builder that is running
    globals,     \* the twelve module-level composite variables
    batch_idx,   \* loop index of the submit loop (index.py:71)
    futures,     \* the submitted tasks, in submission order
    files,       \* the Output directory: file name -> content and writes
    log,         \* the records handed to the logger at level ERROR
    crash,       \* the exception that reached the process boundary, if any
    faults       \* the failures injected so far

vars == <<mainPc, regionOk, df_input, masked, catalog, batch_size, i, globals, batch_idx,
          futures, files, log, crash, faults>>

----------------------------------------------------------------------------
(* Bounds of the model *)

\* The input has 0..MaxRows rows.
MaxRows == 3

\* The batch size of the full run, scaled down from the 4000 of index.py:45.
ScaledBatchSize == 2

\* At most MaxFaults calls fail in one run.
MaxFaults == 1

\* The batch split alone is explored for inputs of 0..MaxSplitRows rows and
\* batch sizes 1..MaxSplitBatchSize.
MaxSplitRows == 8

MaxSplitBatchSize == 4

\* Sampling is explored for one input coordinate whose longitude and latitude
\* are each in 0..MaxCoord, in units of the sampling grid (a pixel is `scale`
\* units wide), with at most MaxMasked pixels without data.
MaxCoord == 6

MaxMasked == 1

\* The archive holds 1..MaxScenes scenes of a sensor for a month.
MaxScenes == 3

\* The flag bands of an optical scene span a row of GridWidth pixels, with at
\* most MaxShadowPixels of them flagged as shadow.
GridWidth == 6

MaxShadowPixels == 1

\* The pool is explored for inputs of 0..MaxPoolRows rows in batches of one
\* row, so for 0..MaxPoolRows batch tasks.
MaxPoolRows == 5

----------------------------------------------------------------------------
(* Program constants *)

year == 2019

FileYear == 2019

max_workers == 4

\* sampleRegions(..., scale=10, ...) (s1_service.py:74, s2_service.py:143)
scale == 10

\* s2_service.py:94
CLD_PRB_THRESH == 70

BUFFER == 40

\* focalMin(2) (s2_service.py:56)
ErosionRadius == 2

\* The pixel of the row of pixels that the input coordinates fall in.
SamplePixel == 1

months == <<"07", "08", "09", "10", "11", "12">>

MonthNames == <<"July", "August", "September", "October", "November", "December">>

s1_month_vars == <<"july_s1", "august_s1", "september_s1", "october_s1",
                   "november_s1", "december_s1">>

s2_month_vars == <<"july_s2", "august_s2", "september_s2", "october_s2",
                   "november_s2", "december_s2">>

VarNames == {s1_month_vars[k] : k \in 1..6} \cup {s2_month_vars[k] : k \in 1..6}

\* The dict of export_sentinel_1_data: month name -> module variable.
S1MonthVars ==
    [m \in {MonthNames[k] : k \in 1..6} |->
        s1_month_vars[CHOOSE k \in 1..6 : MonthNames[k] = m]]

\* The dict of export_sentinel_2_data: month name -> module variable.
S2MonthVars ==
    [m \in {MonthNames[k] : k \in 1..6} |->
        s2_month_vars[CHOOSE k \in 1..6 : MonthNames[k] = m]]

\* str.lower() on the six month names.
Lower(m) ==
    CASE m = "July" -> "july"
      [] m = "August" -> "august"
      [] m = "September" -> "september"
      [] m = "October" -> "october"
      [] m = "November" -> "november"
      [] m = "December" -> "december"

None == [kind |-> "None"]

Min(a, b) == IF a <= b THEN a ELSE b

----------------------------------------------------------------------------
(* Date ranges (s1_service.py:35-36, s2_service.py:99-100) *)

\* A date string "yyyy-mm-dd" is held as its three components.
\* s1_service.py:35: f"{year}-{month}-01"
StartDate(yr, month) == <<yr, month, 1>>

\* s1_service.py:36:
\* f"{year}-{month}-30" if month in ["09", "11"] else f"{year}-{month}-31"
EndDate(yr, month) ==
    IF month \in {"09", "11"} THEN <<yr, month, 30>> ELSE <<yr, month, 31>>

\* s2_service.py:99: f"{year}-{month}-01"
S2StartDate(yr, month) == <<yr, month, 1>>

\* The optical range ending on day 31 in every month.
S2EndDateDay31(yr, month) == <<yr, month, 31>>

\* s2_service.py:100:
\* f"{year}-{month}-30" if month in ["09", "11"] else f"{year}-{month}-31"
S2EndDate(yr, month) ==
    IF month \in {"09", "11"} THEN <<yr, month, 30>> ELSE <<yr, month, 31>>

----------------------------------------------------------------------------
(* Band values.  A band value is a rational number <<n, d>> in lowest terms *)
(* with d > 0; the backend's per-pixel arithmetic is modelled exactly.      *)

RECURSIVE GCD(_, _)
GCD(a, b) == IF b = 0 THEN a ELSE GCD(b, a % b)

Abs(x) == IF x < 0 THEN -x ELSE x

\* The rational n/d (d # 0) in lowest terms.
Frac(n, d) ==
    LET g == GCD(Abs(n), Abs(d))
        sgn == IF d < 0 THEN -1 ELSE 1
    IN  <<(sgn * n) \div g, (sgn * d) \div g>>

R(n) == <<n, 1>>

\* ee.Image.add, subtract, multiply
RAdd(a, b) == Frac(a[1] * b[2] + b[1] * a[2], a[2] * b[2])

RSub(a, b) == Frac(a[1] * b[2] - b[1] * a[2], a[2] * b[2])

RMul(a, b) == Frac(a[1] * b[1], a[2] * b[2])

\* ee.Image.divide: the quotient, and 0 where the divisor is 0.
RDiv(a, b) == IF b[1] = 0 THEN R(0) ELSE Frac(a[1] * b[2], a[2] * b[1])

RLess(a, b) == a[1] * b[2] < b[1] * a[2]

\* ImageCollection.median() at one pixel, over one or more values: the
\* middle value of an odd number of values, the mean of the two middle
\* values of an even number.
Median(values) ==
    LET n == Len(values)
        Below(v) == Cardinality({k \in 1..n : RLess(values[k], v)})
        Above(v) == Cardinality({k \in 1..n : RLess(v, values[k])})
        lower == CHOOSE v \in {values[k] : k \in 1..n} :
                     Below(v) <= (n - 1) \div 2 /\ Above(v) <= n \div 2
        upper == CHOOSE v \in {values[k] : k \in 1..n} :
                     Below(v) <= n \div 2 /\ Above(v) <= (n - 1) \div 2
    IN  RDiv(RAdd(lower, upper), R(2))

----------------------------------------------------------------------------
(* The radar composite at one pixel (s1_service.py:39-52) *)

\* One scene of COPERNICUS/S1_GRD at the pixel after .select(["VV", "VH"]):
\* the two band values as the collection delivers them.
S1Scene(vv, vh) == [VV |-> R(vv), VH |-> R(vh)]

\* s1_collection.median() (s1_service.py:49): the median of each band.
S1MedianImage(scenes) ==
    [VV |-> Median([k \in 1..Len(scenes) |-> scenes[k].VV]),
     VH |-> Median([k \in 1..Len(scenes) |-> scenes[k].VH])]

\* median_image.select("VH").divide(median_image.select("VV"))
\* (s1_service.py:51)
vh_vv(median_image) == RDiv(median_image.VH, median_image.VV)

\* The ratio band taken as the median of the ratios of the single scenes.
S1BandsRatioPerScene(scenes) ==
    [VV |-> S1MedianImage(scenes).VV, VH |-> S1MedianImage(scenes).VH,
     VH_VV |-> Median([k \in 1..Len(scenes) |-> vh_vv(scenes[k])])]

\* median_image.addBands(vh_vv) (s1_service.py:52)
S1Bands(scenes) ==
    LET median_image == S1MedianImage(scenes)
    IN  [VV |-> median_image.VV, VH |-> median_image.VH,
         VH_VV |-> vh_vv(median_image)]

----------------------------------------------------------------------------
(* The optical composite at one pixel (s2_service.py:25-70, 94-124).  A     *)
(* scene carries its flag bands over a row of GridWidth pixels of the 20 m  *)
(* working grid, and its reflectance bands at the sampled pixel.            *)

Pixels == 1..GridWidth

\* One scene of the joined collection (s2_service.py:72-92): the cloud
\* probability of the paired s2cloudless image and the shadow flag that
\* add_shadow_bands derives (s2_service.py:34-49), per pixel, and the
\* reflectance bands at the sampled pixel.
S2Scene(probability, shadows, bands) ==
    [probability |-> probability, shadows |-> shadows, bands |-> bands]

\* is_cloud = cld_prb.gt(CLD_PRB_THRESH) (s2_service.py:28)
clouds(img) == [p \in Pixels |-> IF img.probability[p] > CLD_PRB_THRESH THEN 1 ELSE 0]

\* The pixels of the grid within `radius` pixels of p; the kernel skips what
\* lies outside the image.
Kernel(p, radius) == {q \in Pixels : Abs(q - p) <= radius}

\* ee.Image.focalMin(radius): erosion.
focalMin(band, radius) ==
    [p \in Pixels |-> IF \A q \in Kernel(p, radius) : band[q] = 1 THEN 1 ELSE 0]

\* ee.Image.focalMax(radius): dilation.
focalMax(band, radius) ==
    [p \in Pixels |-> IF \E q \in Kernel(p, radius) : band[q] = 1 THEN 1 ELSE 0]

\* clouds.add(shadows).gt(0) (s2_service.py:55)
is_cld_shdw(img) ==
    [p \in Pixels |-> IF clouds(img)[p] + img.shadows[p] > 0 THEN 1 ELSE 0]

\* The mask taken from the union of the flags as it is, without the
\* erosion and the dilation.
cloudmask_unfiltered(img) == is_cld_shdw(img)

\* is_cld_shdw.focalMin(2).focalMax(BUFFER * 2 / 20) (s2_service.py:56-58)
cloudmask(img) ==
    focalMax(focalMin(is_cld_shdw(img), ErosionRadius), (BUFFER * 2) \div 20)

\* not_cld_shdw = img.select('cloudmask').Not() (s2_service.py:66)
not_cld_shdw(img) == [p \in Pixels |-> IF cloudmask(img)[p] = 0 THEN 1 ELSE 0]

\* img.select([...]).updateMask(not_cld_shdw) (s2_service.py:67): the bands
\* of the scene are visible at pixel p where not_cld_shdw is 1.
Visible(img, p) == not_cld_shdw(img)[p] = 1

S2BandNames == {"B2", "B3", "B4", "B5", "B8", "B11"}

\* s2_processed.median() (s2_service.py:104) at the sampled pixel: per band
\* the median of the scenes that are visible there; no value (None) when no
\* scene is.
S2MedianImage(scenes) ==
    LET seen == SelectSeq(scenes, LAMBDA img : Visible(img, SamplePixel))
    IN  IF seen = <<>> THEN None
        ELSE [b \in S2BandNames |->
                 Median([k \in 1..Len(seen) |-> seen[k].bands[b]])]

\* The index bands of one set of band values (s2_service.py:109-122).
IndexBands(image) ==
    LET nir == image["B8"]
        red == image["B4"]
        blue == image["B2"]
        green == image["B3"]
        rededge == image["B5"]
        swir1 == image["B11"]
    IN  [NDVI |-> RDiv(RSub(nir, red), RAdd(nir, red)),
         EVI |-> RDiv(RMul(RSub(nir, red), Frac(5, 2)),
                      RAdd(RSub(RAdd(nir, RMul(red, R(6))),
                                RMul(blue, Frac(15, 2))), R(1))),
         GNDVI |-> RDiv(RSub(nir, green), RAdd(nir, green)),
         SAVI |-> RDiv(RMul(RSub(nir, red), Frac(3, 2)),
                       RAdd(RAdd(nir, red), Frac(1, 2))),
         NDWI |-> RDiv(RSub(green, nir), RAdd(green, nir)),
         NDMI |-> RDiv(RSub(nir, swir1), RAdd(nir, swir1)),
         RENDVI |-> RDiv(RSub(rededge, red), RAdd(rededge, red))]

\* compute_indices(median_image) (s2_service.py:108-124): the bands of the
\* composite and the seven index bands computed from them.
compute_indices(image) == image @@ IndexBands(image)

\* The indices taken per scene and reduced afterwards: each index band is the
\* median of the index of the visible scenes.
S2BandsIndexPerScene(scenes) ==
    LET seen == SelectSeq(scenes, LAMBDA img : Visible(img, SamplePixel))
    IN  IF seen = <<>> THEN None
        ELSE S2MedianImage(scenes) @@
             [x \in {"NDVI", "EVI", "GNDVI", "SAVI", "NDWI", "NDMI", "RENDVI"} |->
                 Median([k \in 1..Len(seen) |-> IndexBands(seen[k].bands)[x]])]

\* s2_collection.map(add_cld_shdw_mask).map(apply_cld_shdw_mask).median()
\* followed by compute_indices (s2_service.py:103-105).
S2Bands(scenes) ==
    LET median_image == S2MedianImage(scenes)
    IN  IF median_image = None THEN None ELSE compute_indices(median_image)

----------------------------------------------------------------------------
(* The archive, and the composites held by the module variables.  A        *)
(* composite is an expression (filter range and bands) that the backend     *)
(* evaluates when an exporter samples it; its band values at the sampled    *)
(* pixel depend on the archive alone and are held beside the scenes.        *)

Catalog(s1_scenes, s2_scenes) ==
    [s1 |-> s1_scenes, s2 |-> s2_scenes,
     s1_values |-> S1Bands(s1_scenes), s2_values |-> S2Bands(s2_scenes)]

\* median_image.addBands(vh_vv): the radar composite of one month
\* (s1_service.py:39-52).
S1Image(yr, month) ==
    [kind |-> "S1", start |-> StartDate(yr, month), end |-> EndDate(yr, month),
     bands |-> <<"VV", "VH", "VH_VV">>]

\* compute_indices(median_image): the optical composite of one month
\* (s2_service.py:102-105).
S2Image(yr, month) ==
    [kind |-> "S2", start |-> S2StartDate(yr, month), end |-> S2EndDate(yr, month),
     bands |-> <<"B2", "B3", "B4", "B5", "B8", "B11", "B12",
                 "NDVI", "EVI", "GNDVI", "SAVI", "NDWI", "NDMI", "RENDVI">>]

\* The band values that sampling reads from a composite at the sampled pixel;
\* none where the image has no data.
PixelValues(img) ==
    IF img.kind = "S1" THEN catalog.s1_values
    ELSE IF img.kind = "S2" THEN catalog.s2_values
    ELSE None

----------------------------------------------------------------------------
(* Exceptions and log records *)

\* An exception object: its class and the unit of work that raised it.
Exc(type, sensor, month, batch) ==
    [type |-> type, sensor |-> sensor, month |-> month, batch |-> batch]

NoExc == Exc("None", "-", "-", -1)

\* logger.error(...): the message and the values formatted into it.
LogRec(msg, month, batch, exc) ==
    [msg |-> msg, month |-> month, batch |-> batch, exc |-> exc]

\* The stages of the optical build of one month, in call order
\* (s2_service.py:102-105).
S2Stages == {"get_s2_sr_cld_col", "add_cld_shdw_mask", "apply_cld_shdw_mask",
             "median", "compute_indices"}

\* The helpers that log before they re-raise (s2_service.py:30-32, 47-49,
\* 60-62, 68-70, 90-92).
S2StageLog(stage, month) ==
    IF stage \in {"get_s2_sr_cld_col", "add_cld_shdw_mask", "apply_cld_shdw_mask"}
    THEN {LogRec("Error in " \o stage, "-", -1, "EEException")}
    ELSE {}

----------------------------------------------------------------------------
(* The archive of the runs that do not vary it: one radar scene and one     *)
(* cloud-free optical scene.                                                *)

NoFlags == [p \in Pixels |-> 0]

\* NIR = 0.5, RED = 0.1, BLUE = 0.05, GREEN = 0.2, REDEDGE = 0.3,
\* SWIR1 = 0.15
SampleBands ==
    [B8 |-> Frac(1, 2), B4 |-> Frac(1, 10), B2 |-> Frac(1, 20),
     B3 |-> Frac(1, 5), B5 |-> Frac(3, 10), B11 |-> Frac(3, 20)]

DefaultS1 == <<S1Scene(-12, -18)>>

DefaultS2 == <<S2Scene(NoFlags, NoFlags, SampleBands)>>

DefaultCatalog == Catalog(DefaultS1, DefaultS2)

----------------------------------------------------------------------------
(* The initial state: the process has started, nothing has run. *)

\* One row of Tumkur_Points.csv as iterrows() yields it (index.py:54-58):
\* the index label and the two coordinate columns.
Row(index, lon, lat) == [index |-> index, Longitude |-> lon, Latitude |-> lat]

InputRows(n) == [k \in 1..n |-> Row(k - 1, k - 1, k - 1)]

Init ==
    /\ mainPc = "ee_init"
    /\ regionOk \in BOOLEAN
    /\ \E n \in 0..MaxRows : df_input = InputRows(n)
    /\ masked = {}
    /\ catalog = DefaultCatalog
    /\ batch_size = ScaledBatchSize
    /\ i = 0
    /\ globals = [v \in VarNames |-> None]
    /\ batch_idx = 0
    /\ futures = <<>>
    /\ files = <<>>
    /\ log = {}
    /\ crash = NoExc
    /\ faults = 0

----------------------------------------------------------------------------
(* index.py:26-33: the GEE session *)

EEInitialize ==
    /\ mainPc = "ee_init"
    /\ \/ /\ mainPc' = "s1_region"
          /\ UNCHANGED <<log, faults>>
       \/ /\ faults < MaxFaults
          /\ faults' = faults + 1
          /\ log' = log \cup {LogRec("Error initializing GEE", "-", -1, "Exception")}
          /\ mainPc' = "exited"
    /\ UNCHANGED <<regionOk, df_input, masked, catalog, batch_size, i, globals, batch_idx,
                   futures, files, crash>>

----------------------------------------------------------------------------
(* s1_service.py:18-55: create_monthwise_s1_collection *)

\* s1_service.py:21-29: the region is loaded inside try/except; on failure
\* the function logs and returns to index.py:42.
S1RegionFailPc == "s2_region"

S1LoadRegion ==
    /\ mainPc = "s1_region"
    /\ IF regionOk
       THEN /\ mainPc' = "s1_build"
            /\ i' = 0
            /\ UNCHANGED log
       ELSE /\ mainPc' = S1RegionFailPc
            /\ log' = log \cup {LogRec("Failed to load GeoJSON", "-", -1, "Exception")}
            /\ UNCHANGED i
    /\ UNCHANGED <<regionOk, df_input, masked, catalog, batch_size, globals, batch_idx,
                   futures, files, crash, faults>>

\* s1_service.py:38-55: what one iteration leaves in the month's variable.
S1BuildValue(ok, old, img) == IF ok THEN img ELSE old

\* s1_service.py:54-55: the except branch of one iteration.
S1BuildLog(ok, month) ==
    IF ok THEN {} ELSE {LogRec("Error creating Sentinel-1 data", month, -1, "Exception")}

\* The radar loop left at the first month that fails.
S1NextPcBreak(ok, k) ==
    IF ok /\ k + 1 < Len(months) THEN "s1_build" ELSE "s2_region"

\* s1_service.py:34: the loop goes on to the next month whatever happened.
S1NextPc(ok, k) == IF k + 1 < Len(months) THEN "s1_build" ELSE "s2_region"

S1BuildMonth ==
    /\ mainPc = "s1_build"
    /\ \E ok \in BOOLEAN :
          /\ ~ok => faults < MaxFaults
          /\ faults' = IF ok THEN faults ELSE faults + 1
          /\ globals' = [globals EXCEPT ![s1_month_vars[i + 1]] =
                            S1BuildValue(ok, @, S1Image(year, months[i + 1]))]
          /\ log' = log \cup S1BuildLog(ok, months[i + 1])
          /\ mainPc' = S1NextPc(ok, i)
          /\ i' = i + 1
    /\ UNCHANGED <<regionOk, df_input, masked, catalog, batch_size, batch_idx, futures, files, crash>>

----------------------------------------------------------------------------
(* s2_service.py:17-106: create_monthwise_s2_collection *)

\* s2_service.py:20-23: the region is loaded outside any try; a failure
\* leaves the function and, uncaught at index.py:42, ends the process.
\* The optical builder handling a failed region load as the radar builder
\* does: log, return, and let index.py go on.
S2RegionFailReturns == "submit"

S2RegionFailPc == "aborted"

S2LoadRegion ==
    /\ mainPc = "s2_region"
    /\ IF regionOk
       THEN /\ mainPc' = "s2_build"
            /\ i' = 0
            /\ UNCHANGED crash
       ELSE /\ mainPc' = S2RegionFailPc
            /\ crash' = Exc("Exception", "region", "-", -1)
            /\ UNCHANGED i
    /\ UNCHANGED <<regionOk, df_input, masked, catalog, batch_size, globals, batch_idx,
                   futures, files, log, faults>>

\* s2_service.py:98-106: the loop body has no try; an exception of any stage
\* leaves the loop and the function.
S2NextPc(ok, k) ==
    IF ~ok THEN "aborted"
    ELSE IF k + 1 < Len(months) THEN "s2_build" ELSE "submit"

S2BuildMonth ==
    /\ mainPc = "s2_build"
    /\ \/ /\ globals' = [globals EXCEPT ![s2_month_vars[i + 1]] =
                              S2Image(year, months[i + 1])]
          /\ mainPc' = S2NextPc(TRUE, i)
          /\ i' = i + 1
          /\ UNCHANGED <<log, crash, faults>>
       \/ /\ faults < MaxFaults
          /\ faults' = faults + 1
          /\ \E stage \in S2Stages :
                /\ log' = log \cup S2StageLog(stage, months[i + 1])
                /\ crash' = Exc("EEException", "s2_build", months[i + 1], -1)
          /\ mainPc' = S2NextPc(FALSE, i)
          /\ UNCHANGED <<globals, i>>
    /\ UNCHANGED <<regionOk, df_input, masked, catalog, batch_size, batch_idx, futures, files>>

----------------------------------------------------------------------------
(* index.py:44-75: the batch split and the submit loop *)

\* The batch count rounded down instead of up.
num_batches_floor(n, B) == n \div B

\* index.py:46
num_batches(n, B) == (n + B - 1) \div B

\* index.py:72
start_idx(k, B) == k * B

\* index.py:73
end_idx(k, B, n) == Min((k + 1) * B, n)

\* df_input.iloc[start_idx:end_idx] (index.py:74): the rows keep their labels.
Iloc(df, s, e) == SubSeq(df, s + 1, e)

\* index.py:54-58: one feature per row of the batch: a point at the row's
\* longitude and latitude, its id the row's label.
Features(batch_df) ==
    [k \in 1..Len(batch_df) |->
        [id |-> batch_df[k].index,
         geometry |-> <<batch_df[k].Longitude, batch_df[k].Latitude>>]]

\* executor.submit(process_batch, batch_idx, batch_df, ...) (index.py:75):
\* the future and the arguments it holds.
NewFuture(k, batch_df) ==
    [batch_idx |-> k, batch_df |-> batch_df, status |-> "pending", pos |-> 0,
     fc |-> <<>>, calls |-> <<>>, exc |-> NoExc, collected |-> FALSE]

\* The pool created, and batches submitted, while the optical builder runs.
SubmitPhaseEarly == mainPc \in {"s2_build", "submit"}

\* index.py:69: the pool is created, and the submit loop entered, after the
\* two builders have returned (index.py:41-42).
SubmitPhase == mainPc = "submit"

Submit ==
    /\ SubmitPhase
    /\ batch_idx < num_batches(Len(df_input), batch_size)
    /\ futures' = Append(futures,
           NewFuture(batch_idx,
                     Iloc(df_input, start_idx(batch_idx, batch_size),
                          end_idx(batch_idx, batch_size, Len(df_input)))))
    /\ batch_idx' = batch_idx + 1
    /\ UNCHANGED <<mainPc, regionOk, df_input, masked, catalog, batch_size, i, globals, files,
                   log, crash, faults>>

\* index.py:71: range(num_batches) is exhausted; the result loop starts.
SubmitDone ==
    /\ mainPc = "submit"
    /\ batch_idx >= num_batches(Len(df_input), batch_size)
    /\ mainPc' = "collect"
    /\ UNCHANGED <<regionOk, df_input, masked, catalog, batch_size, i, globals, batch_idx,
                   futures, files, log, crash, faults>>

----------------------------------------------------------------------------
(* index.py:52-66 and 69-75: the worker pool and process_batch *)

Running == {t \in 1..Len(futures) : futures[t].status = "running"}

\* A pool that starts every queued task at once.
WorkerFreeAlways == TRUE

\* ThreadPoolExecutor(max_workers=4): a queued task starts when a worker is
\* idle, the queue being first in, first out.
WorkerFree == Cardinality(Running) < max_workers

FirstPending(t) ==
    /\ futures[t].status = "pending"
    /\ \A u \in 1..(t - 1) : futures[u].status # "pending"

\* process_batch calling only the radar exporter.
UnitsPerTaskRadarOnly == Len(MonthNames)

\* The number of export calls of one task: two per month (index.py:62-66).
UnitsPerTask == 2 * Len(MonthNames)

\* index.py:54-59: the task starts and builds its feature collection; a row
\* without the expected columns, or a point the client library rejects,
\* raises inside the task.
StartTask(t) ==
    /\ FirstPending(t)
    /\ WorkerFree
    /\ \/ /\ futures' = [futures EXCEPT ![t].status = "running",
                                          ![t].fc = Features(futures[t].batch_df)]
          /\ UNCHANGED faults
       \/ /\ faults < MaxFaults
          /\ faults' = faults + 1
          /\ futures' = [futures EXCEPT
                ![t].status = "done_exc",
                ![t].exc = Exc("KeyError", "features", "-", futures[t].batch_idx)]
    /\ UNCHANGED <<mainPc, regionOk, df_input, masked, catalog, batch_size, i, globals,
                   batch_idx, files, log, crash>>

----------------------------------------------------------------------------
(* s1_service.py:57-103 and s2_service.py:126-174: the exporters *)

\* What one export call can do once the composite is there: succeed, fail in
\* a backend call (sampleRegions, getInfo), fail mapping a feature to a row
\* (props["id"], feature["geometry"]), or fail writing the file (to_csv).
ExportOutcomes == {"ok", "EEException", "KeyError", "OSError"}

\* The radar exporter with a handler for the wrong exception class.
S1CatchesKeyError(type) == type = "KeyError"

\* s1_service.py:102: except ee.EEException
S1Catches(type) == type = "EEException"

\* s2_service.py:173: except ee.EEException
S2Catches(type) == type = "EEException"

\* An exporter that goes on to sample whatever the module variable holds.
NotInitializedIgnored(img) == FALSE

\* s1_service.py:64, s2_service.py:133: if s1_img is None / if s2_img is None
NotInitialized(img) == img = None

\* The radar file name without the batch index.
S1FileNameNoBatch(month, k) ==
    [sensor |-> "s1", month |-> Lower(month), year |-> FileYear, batch |-> 0]

\* s1_service.py:98
S1FileName(month, k) ==
    [sensor |-> "s1", month |-> Lower(month), year |-> FileYear, batch |-> k]

\* s2_service.py:170
S2FileName(month, k) ==
    [sensor |-> "s2", month |-> Lower(month), year |-> FileYear, batch |-> k]

\* The centre of the pixel of the sampling grid that holds coordinate x.
PixelCentre(x) == (x \div scale) * scale + scale \div 2

\* img.sampleRegions(collection=fc, properties=["id"], scale=10,
\*                   projection=img.projection(), geometries=True)
\*    .getInfo()["features"]:
\* one returned feature per point of the collection whose pixel holds data in
\* the image, in collection order; the feature keeps the property "id" of the
\* point, and its geometry is the centre of the sampled pixel.
\* Its properties are the id and one value per band of the image.
SampleRegions(img, fc) ==
    LET values == PixelValues(img)
        HasData(f) == /\ values # None
                      /\ <<img.kind, img.start[2], f.id>> \notin masked
        kept == SelectSeq(fc, HasData)
    IN  [k \in 1..Len(kept) |->
            [properties |-> [id |-> kept[k].id] @@ values,
             geometry |-> <<PixelCentre(kept[k].geometry[1]),
                            PixelCentre(kept[k].geometry[2])>>]]

\* The band columns of the radar file (s1_service.py:91-93).
S1Columns == {"VV", "VH", "VH_VV"}

\* The index columns of the optical file (s2_service.py:159-165).
S2Columns == {"NDVI", "EVI", "GNDVI", "SAVI", "NDWI", "NDMI", "RENDVI"}

\* props.get(key, 0)
Get(props, key) == IF key \in DOMAIN props THEN props[key] ELSE R(0)

\* s1_service.py:84-95, s2_service.py:152-167: one row per returned feature,
\* id from its properties, Longitude and Latitude from its geometry, and the
\* band columns from its properties.
Rows(features, columns) ==
    [k \in 1..Len(features) |->
        [id |-> features[k].properties["id"],
         Longitude |-> features[k].geometry[1],
         Latitude |-> features[k].geometry[2]]
        @@ [c \in columns |-> Get(features[k].properties, c)]]

\* df.to_csv(output_file, index=False): the file is created or replaced.
ToCsv(fs, name, rows) ==
    IF name \in DOMAIN fs
    THEN [fs EXCEPT ![name] = [rows |-> rows, writes |-> @.writes + 1]]
    ELSE fs @@ (name :> [rows |-> rows, writes |-> 1])

\* One call of an exporter, as process_batch sees it: the call is recorded
\* with its arguments; a caught failure and a skipped month return normally,
\* an exception that the exporter does not catch ends process_batch.
AfterCall(task, sensor, month, outcome, caught) ==
    LET call == [sensor |-> sensor, month |-> month, batch_idx |-> task.batch_idx,
                 fc |-> task.fc, outcome |-> outcome]
        returns == outcome \in {"ok", "skipped"} \/ caught
    IN  [task EXCEPT
           !.calls = Append(@, call),
           !.pos = IF returns THEN @ + 1 ELSE @,
           !.status = IF ~returns THEN "done_exc"
                      ELSE IF task.pos + 1 = UnitsPerTask THEN "done_ok"
                      ELSE "running",
           !.exc = IF returns THEN @
                   ELSE Exc(outcome, sensor, month, task.batch_idx)]

\* index.py:64 calling s1_service.py:57-103
ExportS1(t) ==
    /\ futures[t].status = "running"
    /\ futures[t].pos % 2 = 0
    /\ LET task == futures[t]
           month == MonthNames[(task.pos \div 2) + 1]
           s1_img == globals[S1MonthVars[month]]
       IN  IF NotInitialized(s1_img)
           THEN /\ log' = log \cup
                     {LogRec("Sentinel-1 image not initialized", month, -1, "-")}
                /\ futures' = [futures EXCEPT ![t] =
                                  AfterCall(task, "s1", month, "skipped", TRUE)]
                /\ UNCHANGED <<files, faults>>
           ELSE \E outcome \in ExportOutcomes :
                /\ outcome # "ok" => faults < MaxFaults
                /\ faults' = IF outcome = "ok" THEN faults ELSE faults + 1
                /\ \E features \in {SampleRegions(s1_img, task.fc)} :
                      files' = IF outcome = "ok"
                               THEN ToCsv(files, S1FileName(month, task.batch_idx),
                                          Rows(features, S1Columns))
                               ELSE files
                /\ log' = IF outcome # "ok" /\ S1Catches(outcome)
                           THEN log \cup {LogRec("Error processing Sentinel-1 data",
                                                 month, task.batch_idx, outcome)}
                           ELSE log
                /\ futures' = [futures EXCEPT ![t] =
                                  AfterCall(task, "s1", month, outcome,
                                            S1Catches(outcome))]
    /\ UNCHANGED <<mainPc, regionOk, df_input, masked, catalog, batch_size, i, globals,
                   batch_idx, crash>>

\* index.py:66 calling s2_service.py:126-174
ExportS2(t) ==
    /\ futures[t].status = "running"
    /\ futures[t].pos % 2 = 1
    /\ LET task == futures[t]
           month == MonthNames[(task.pos \div 2) + 1]
           s2_img == globals[S2MonthVars[month]]
       IN  IF NotInitialized(s2_img)
           THEN /\ log' = log \cup
                     {LogRec("Sentinel-2 image not initialized", month, -1, "-")}
                /\ futures' = [futures EXCEPT ![t] =
                                  AfterCall(task, "s2", month, "skipped", TRUE)]
                /\ UNCHANGED <<files, faults>>
           ELSE \E outcome \in ExportOutcomes :
                /\ outcome # "ok" => faults < MaxFaults
                /\ faults' = IF outcome = "ok" THEN faults ELSE faults + 1
                /\ \E features \in {SampleRegions(s2_img, task.fc)} :
                      files' = IF outcome = "ok"
                               THEN ToCsv(files, S2FileName(month, task.batch_idx),
                                          Rows(features, S2Columns))
                               ELSE files
                /\ log' = IF outcome # "ok" /\ S2Catches(outcome)
                           THEN log \cup {LogRec("Error processing Sentinel-2 data",
                                                 month, task.batch_idx, outcome)}
                           ELSE log
                /\ futures' = [futures EXCEPT ![t] =
                                  AfterCall(task, "s2", month, outcome,
                                            S2Catches(outcome))]
    /\ UNCHANGED <<mainPc, regionOk, df_input, masked, catalog, batch_size, i, globals,
                   batch_idx, crash>>

----------------------------------------------------------------------------
(* index.py:77-84: the result loop and the end of the run *)

Finished(t) == futures[t].status \in {"done_ok", "done_exc"}

\* The result loop with a handler that swallows the exception unlogged.
SchedulerLogSilent(exc) == {}

\* index.py:81-82: except Exception as e: logger.error(...)
SchedulerLog(exc) ==
    IF exc = NoExc THEN {}
    ELSE {LogRec("Error in batch processing", exc.month, exc.batch, exc.type)}

\* as_completed(futures) yields a future once it has finished;
\* future.result() returns, or raises what the task raised.
Collect(t) ==
    /\ mainPc = "collect"
    /\ Finished(t)
    /\ ~futures[t].collected
    /\ futures' = [futures EXCEPT ![t].collected = TRUE]
    /\ log' = log \cup SchedulerLog(futures[t].exc)
    /\ UNCHANGED <<mainPc, regionOk, df_input, masked, catalog, batch_size, i, globals,
                   batch_idx, files, crash, faults>>

\* The result loop left as soon as one future has been yielded.
AnyCollected == \A t \in 1..Len(futures) : \E u \in 1..Len(futures) : futures[u].collected

\* The result loop ends when every future has been yielded.
AllCollected == \A t \in 1..Len(futures) : futures[t].collected

\* index.py:84: the with block is left and the run reports completion.
Finish ==
    /\ mainPc = "collect"
    /\ AllCollected
    /\ mainPc' = "done"
    /\ UNCHANGED <<regionOk, df_input, masked, catalog, batch_size, i, globals, batch_idx,
                   futures, files, log, crash, faults>>

----------------------------------------------------------------------------

MainStep ==
    \/ EEInitialize
    \/ S1LoadRegion
    \/ S1BuildMonth
    \/ S2LoadRegion
    \/ S2BuildMonth
    \/ Submit
    \/ SubmitDone
    \/ Finish
    \/ \E t \in 1..Len(futures) : Collect(t)

TaskStep(t) == StartTask(t) \/ ExportS1(t) \/ ExportS2(t)

Next == MainStep \/ \E t \in 1..Len(futures) : TaskStep(t)

Spec == Init /\ [][Next]_vars

\* The main thread and the pool's threads are scheduled by the operating
\* system: a thread that can take a step eventually takes one.
LiveSpec ==
    /\ Init
    /\ [][Next]_vars
    /\ WF_vars(MainStep)
    /\ WF_vars(\E t \in 1..Len(futures) : TaskStep(t))

----------------------------------------------------------------------------
(* The batch split on its own: the run has reached index.py:44 with the    *)
(* twelve composites built, and the submit loop runs to its end, for every  *)
(* input length and batch size within the bounds.                           *)

InitSplit ==
    /\ mainPc = "submit"
    /\ regionOk = TRUE
    /\ \E n \in 0..MaxSplitRows : df_input = InputRows(n)
    /\ masked = {}
    /\ catalog = DefaultCatalog
    /\ batch_size \in 1..MaxSplitBatchSize
    /\ i = Len(months)
    /\ globals = [v \in VarNames |->
                    IF \E k \in 1..6 : s1_month_vars[k] = v
                    THEN S1Image(year, months[CHOOSE k \in 1..6 : s1_month_vars[k] = v])
                    ELSE S2Image(year, months[CHOOSE k \in 1..6 : s2_month_vars[k] = v])]
    /\ batch_idx = 0
    /\ futures = <<>>
    /\ files = <<>>
    /\ log = {}
    /\ crash = NoExc
    /\ faults = 0

NextSplit == Submit \/ SubmitDone

SpecSplit == InitSplit /\ [][NextSplit]_vars

----------------------------------------------------------------------------
(* Sampling on its own: a run without failures over one input coordinate,   *)
(* for every position of the coordinate within the bounds and every choice  *)
(* of at most MaxMasked (sensor, month) composites without data there.      *)

MaskKeys == {<<s, months[k], 0>> : s \in {"S1", "S2"}, k \in 1..Len(months)}

InitRows ==
    /\ mainPc = "ee_init"
    /\ regionOk = TRUE
    /\ \E lon \in 0..MaxCoord, lat \in 0..MaxCoord : df_input = <<Row(0, lon, lat)>>
    /\ masked \in {m \in SUBSET MaskKeys : Cardinality(m) <= MaxMasked}
    /\ catalog = DefaultCatalog
    /\ batch_size = ScaledBatchSize
    /\ i = 0
    /\ globals = [v \in VarNames |-> None]
    /\ batch_idx = 0
    /\ futures = <<>>
    /\ files = <<>>
    /\ log = {}
    /\ crash = NoExc
    /\ faults = MaxFaults

SpecRows == InitRows /\ [][Next]_vars

----------------------------------------------------------------------------
(* The radar composite on its own: a run without failures over one input    *)
(* coordinate, for every archive of 1..MaxScenes radar scenes drawn from     *)
(* RadarScenes.                                                             *)

RadarScenes == {S1Scene(vv, vh) : vv \in {-12, -6}, vh \in {-18, -6}}

InitRadar ==
    /\ mainPc = "ee_init"
    /\ regionOk = TRUE
    /\ df_input = InputRows(1)
    /\ masked = {}
    /\ \E n \in 1..MaxScenes : \E scenes \in [1..n -> RadarScenes] :
          catalog = Catalog(scenes, DefaultS2)
    /\ batch_size = ScaledBatchSize
    /\ i = 0
    /\ globals = [v \in VarNames |-> None]
    /\ batch_idx = 0
    /\ futures = <<>>
    /\ files = <<>>
    /\ log = {}
    /\ crash = NoExc
    /\ faults = MaxFaults

SpecRadar == InitRadar /\ [][Next]_vars

----------------------------------------------------------------------------
(* The optical indices on their own: a run without failures over one input  *)
(* coordinate, for every archive of 1..MaxScenes optical scenes, each either *)
(* free of cloud or covered by cloud, with band values from OpticalBands.   *)

\* The band values of SampleBands with other near-infrared and red values.
OpticalBands ==
    {[SampleBands EXCEPT !["B8"] = nr[1], !["B4"] = nr[2]] :
        nr \in {<<Frac(1, 2), Frac(1, 10)>>, <<Frac(1, 2), Frac(3, 10)>>,
                <<Frac(9, 10), Frac(3, 20)>>, <<Frac(1, 10), Frac(1, 20)>>}}

Overcast == [p \in Pixels |-> CLD_PRB_THRESH + 1]

OpticalScenes ==
    {S2Scene(probability, NoFlags, bands) :
        probability \in {NoFlags, Overcast}, bands \in OpticalBands}

InitOptical ==
    /\ mainPc = "ee_init"
    /\ regionOk = TRUE
    /\ df_input = InputRows(1)
    /\ masked = {}
    /\ \E n \in 1..MaxScenes : \E scenes \in [1..n -> OpticalScenes] :
          catalog = Catalog(DefaultS1, scenes)
    /\ batch_size = ScaledBatchSize
    /\ i = 0
    /\ globals = [v \in VarNames |-> None]
    /\ batch_idx = 0
    /\ futures = <<>>
    /\ files = <<>>
    /\ log = {}
    /\ crash = NoExc
    /\ faults = MaxFaults

SpecOptical == InitOptical /\ [][Next]_vars

----------------------------------------------------------------------------
(* The cloud and shadow mask on its own: a run without failures over one    *)
(* input coordinate and an archive of one optical scene, for every cloud    *)
(* probability band with values at or just above the threshold and every    *)
(* shadow band with at most MaxShadowPixels flagged pixels.                 *)

ProbabilityBands == [Pixels -> {CLD_PRB_THRESH, CLD_PRB_THRESH + 1}]

ShadowBands ==
    {b \in [Pixels -> {0, 1}] :
        Cardinality({p \in Pixels : b[p] = 1}) <= MaxShadowPixels}

InitMask ==
    /\ mainPc = "ee_init"
    /\ regionOk = TRUE
    /\ df_input = InputRows(1)
    /\ masked = {}
    /\ \E probability \in ProbabilityBands, shadows \in ShadowBands :
          catalog = Catalog(DefaultS1,
                            <<S2Scene(probability, shadows, SampleBands)>>)
    /\ batch_size = ScaledBatchSize
    /\ i = 0
    /\ globals = [v \in VarNames |-> None]
    /\ batch_idx = 0
    /\ futures = <<>>
    /\ files = <<>>
    /\ log = {}
    /\ crash = NoExc
    /\ faults = MaxFaults

SpecMask == InitMask /\ [][Next]_vars

----------------------------------------------------------------------------
(* The pool on its own: a run without failures whose input is split into    *)
(* batches of one row, so that there can be more batch tasks than workers.  *)
(* The run is taken up at the moment the submit loop has ended: every batch *)
(* is submitted, the tasks that found a worker have each made all their     *)
(* export calls but the last, and the other tasks wait in the queue.        *)

\* The twelve module variables after both builders have succeeded.
BuiltGlobals ==
    [v \in VarNames |->
        IF \E k \in 1..6 : s1_month_vars[k] = v
        THEN S1Image(year, months[CHOOSE k \in 1..6 : s1_month_vars[k] = v])
        ELSE S2Image(year, months[CHOOSE k \in 1..6 : s2_month_vars[k] = v])]

\* process_batch after its first p export calls, all of them successful
\* (index.py:62-66).
RECURSIVE TaskAfter(_, _)
TaskAfter(task, p) ==
    IF p = 0
    THEN [task EXCEPT !.status = "running", !.fc = Features(task.batch_df)]
    ELSE LET before == TaskAfter(task, p - 1)
             month == MonthNames[(before.pos \div 2) + 1]
         IN  AfterCall(before, IF before.pos % 2 = 0 THEN "s1" ELSE "s2",
                       month, "ok", FALSE)

\* The file that a successful export call has written.
WrittenBy(c) ==
    IF c.sensor = "s1"
    THEN S1FileName(c.month, c.batch_idx) :>
            [rows |-> Rows(SampleRegions(BuiltGlobals[S1MonthVars[c.month]], c.fc),
                           S1Columns),
             writes |-> 1]
    ELSE S2FileName(c.month, c.batch_idx) :>
            [rows |-> Rows(SampleRegions(BuiltGlobals[S2MonthVars[c.month]], c.fc),
                           S2Columns),
             writes |-> 1]

\* The Output directory after the calls of the first n tasks.
RECURSIVE FilesOf(_, _)
FilesOf(tasks, n) ==
    IF n = 0 THEN <<>>
    ELSE LET RECURSIVE Written(_)
             Written(k) == IF k = 0 THEN <<>>
                           ELSE Written(k - 1) @@ WrittenBy(tasks[n].calls[k])
         IN  FilesOf(tasks, n - 1) @@ Written(Len(tasks[n].calls))

InitPool ==
    /\ mainPc = "collect"
    /\ regionOk = TRUE
    /\ \E n \in 0..MaxPoolRows : df_input = InputRows(n)
    /\ masked = {}
    /\ catalog = DefaultCatalog
    /\ batch_size = 1
    /\ i = Len(months)
    /\ globals = BuiltGlobals
    /\ batch_idx = num_batches(Len(df_input), batch_size)
    /\ futures =
          [k \in 1..batch_idx |->
              LET task == NewFuture(k - 1,
                              Iloc(df_input, start_idx(k - 1, batch_size),
                                   end_idx(k - 1, batch_size, Len(df_input))))
              IN  IF k <= max_workers THEN TaskAfter(task, UnitsPerTask - 1)
                  ELSE task]
    /\ files = FilesOf(futures, Len(futures))
    /\ log = {}
    /\ crash = NoExc
    /\ faults = MaxFaults

NextPool ==
    \/ Finish
    \/ \E t \in 1..Len(futures) : Collect(t)
    \/ \E t \in 1..Len(futures) : TaskStep(t)

SpecPool == InitPool /\ [][NextPool]_vars

----------------------------------------------------------------------------
(* Properties *)

Tasks == 1..Len(futures)

MonthIdx == 1..Len(months)

\* The optical build of month k raised (the exception is the one that ended
\* the process, or would be the one recorded for the month).
S2BuildFailed(k) == crash.sensor = "s2_build" /\ crash.month = months[k]

\* The radar build of month k raised and was logged (s1_service.py:54-55).
S1BuildFailed(k) ==
    LogRec("Error creating Sentinel-1 data", months[k], -1, "Exception") \in log

\* The file of every (sensor, month, batch) unit of the run except the
\* optical units of month k.
FilesWithoutOptical(k) ==
    {S1FileName(MonthNames[m], b) :
        m \in MonthIdx, b \in 0..(num_batches(Len(df_input), batch_size) - 1)}
    \cup
    {S2FileName(MonthNames[m], b) :
        m \in MonthIdx \ {k}, b \in 0..(num_batches(Len(df_input), batch_size) - 1)}

\* C1 (as claimed): when the optical build fails for exactly one month, the
\* run is not aborted: the other months are still built, the batches are
\* processed, and at the end of the run every radar file and every optical
\* file of the other months exists while no optical file of that month does.
C1_OpticalFailureIsolated ==
    \A k \in MonthIdx :
        S2BuildFailed(k) =>
            /\ mainPc # "aborted"
            /\ mainPc = "done" => DOMAIN files = FilesWithoutOptical(k)

\* C2: an exception raised inside a batch task is caught and logged by the
\* result loop, never reaches the process boundary, and leaves every other
\* task to run: when the run is complete, every task has finished, and every
\* task that did not itself raise has made all of its export calls.
C2_TaskFailureIsolated ==
    /\ \A t \in Tasks :
          (futures[t].collected /\ futures[t].exc # NoExc) =>
             LogRec("Error in batch processing", futures[t].exc.month,
                    futures[t].exc.batch, futures[t].exc.type) \in log
    /\ (\E t \in Tasks : futures[t].exc # NoExc) => crash = NoExc
    /\ mainPc = "done" =>
          \A t \in Tasks :
             /\ Finished(t)
             /\ futures[t].exc = NoExc =>
                   (futures[t].status = "done_ok" /\ Len(futures[t].calls) = UnitsPerTask)

\* C2 witness: the run is complete, one task raised and was logged, and
\* another task made all twelve calls.
C2_Witness ==
    /\ mainPc = "done"
    /\ \E t, u \in Tasks :
          /\ futures[t].exc # NoExc
          /\ futures[u].exc = NoExc
          /\ Len(futures[u].calls) = UnitsPerTask

\* The file name of the unit of a recorded export call.
CallFile(c) ==
    IF c.sensor = "s1" THEN S1FileName(c.month, c.batch_idx)
    ELSE S2FileName(c.month, c.batch_idx)

\* The error record an exporter logs for a failed unit.
CallLog(c) ==
    LogRec(IF c.sensor = "s1" THEN "Error processing Sentinel-1 data"
           ELSE "Error processing Sentinel-2 data", c.month, c.batch_idx, c.outcome)

CallFailed(c) == c.outcome \in ExportOutcomes \ {"ok"}

\* C3 (as claimed): no exporter raises past its caller; every failed unit is
\* logged, its file is not produced, and the task goes on to its remaining
\* units.
C3_ExportersNeverRaise ==
    \A t \in Tasks :
        /\ futures[t].exc.sensor \notin {"s1", "s2"}
        /\ \A k \in 1..Len(futures[t].calls) :
              CallFailed(futures[t].calls[k]) =>
                 /\ CallLog(futures[t].calls[k]) \in log
                 /\ CallFile(futures[t].calls[k]) \notin DOMAIN files
                 /\ futures[t].pos >= k

\* C3 (amended): a backend failure (ee.EEException) of a unit is logged by
\* the exporter, its file is not produced, the exporter returns and the task
\* goes on until it has made all its calls; any other failure (row mapping,
\* file writing) is raised past the exporter, ends the task at that call and
\* is logged by the result loop once the task is collected.
C3_OnlyBackendFailuresCaught ==
    \A t \in Tasks :
        /\ \A k \in 1..Len(futures[t].calls) :
              LET c == futures[t].calls[k] IN
              /\ c.outcome = "EEException" =>
                    /\ CallLog(c) \in log
                    /\ CallFile(c) \notin DOMAIN files
                    /\ futures[t].pos >= k
                    /\ futures[t].exc # Exc("EEException", c.sensor, c.month, c.batch_idx)
              /\ c.outcome \in {"KeyError", "OSError"} =>
                    /\ k = Len(futures[t].calls)
                    /\ futures[t].status = "done_exc"
                    /\ futures[t].exc = Exc(c.outcome, c.sensor, c.month, c.batch_idx)
                    /\ futures[t].collected =>
                          LogRec("Error in batch processing", c.month, c.batch_idx,
                                 c.outcome) \in log
        /\ (Finished(t) /\ futures[t].exc = NoExc) =>
              Len(futures[t].calls) = UnitsPerTask

\* C3 witness: a task whose radar export of a month failed in the backend
\* has gone on and finished all twelve calls.
C3_Witness ==
    \E t \in Tasks :
        /\ futures[t].status = "done_ok"
        /\ Len(futures[t].calls) = UnitsPerTask
        /\ \E k \in 1..(UnitsPerTask - 1) :
              /\ futures[t].calls[k].sensor = "s1"
              /\ futures[t].calls[k].outcome = "EEException"

\* C4: a composite variable is written only while no batch task has been
\* submitted, no step that writes one leaves a task submitted, and once a
\* task has been submitted both builders have returned.
C4_CompositesBeforeTasks ==
    [][ /\ globals' # globals => (futures = <<>> /\ futures' = <<>>)
        /\ futures' # <<>> => mainPc' \in {"submit", "collect", "done"} ]_vars

\* C4 witness: tasks are in the pool and the composites they read are set.
C4_Witness ==
    /\ \E t \in Tasks : futures[t].status \in {"pending", "running"}
    /\ \A v \in VarNames : globals[v] # None

\* The smallest number of batches of at most B rows that hold n rows.
CeilDiv(n, B) == CHOOSE q \in 0..n : q * B >= n /\ (q = 0 \/ (q - 1) * B < n)

\* The concatenation of the batches submitted so far.
RECURSIVE Concat(_)
Concat(fs) == IF fs = <<>> THEN <<>>
              ELSE Concat(SubSeq(fs, 1, Len(fs) - 1)) \o fs[Len(fs)].batch_df

\* C5: the submit loop creates ceil(N/B) batches; batch k holds the rows
\* [k*B, min((k+1)*B, N)) in input order, at least one and at most B of them;
\* the batches submitted so far, concatenated, are a prefix of the input and
\* at the end of the loop the whole input, so every row is in exactly one
\* batch; the feature of a row carries the row's original index as id; and
\* 9000 rows in batches of 4000 give three batches of 4000, 4000 and 1000
\* rows that cover the rows 0..8999 without gap or overlap.
C5_BatchesPartitionInput ==
    LET N == Len(df_input)
        B == batch_size
    IN  /\ Len(futures) = batch_idx
        /\ batch_idx <= CeilDiv(N, B)
        /\ mainPc = "collect" => Len(futures) = CeilDiv(N, B)
        /\ \A t \in Tasks :
              LET k == t - 1
                  rows == futures[t].batch_df
              IN  /\ futures[t].batch_idx = k
                  /\ Len(rows) >= 1 /\ Len(rows) <= B
                  /\ Len(rows) = (IF (k + 1) * B <= N THEN B ELSE N - k * B)
                  /\ \A j \in 1..Len(rows) :
                        /\ rows[j] = df_input[k * B + j]
                        /\ Features(rows)[j].id = k * B + j - 1
        /\ Concat(futures) = SubSeq(df_input, 1, Len(Concat(futures)))
        /\ mainPc = "collect" => Concat(futures) = df_input
        /\ num_batches(9000, 4000) = 3
        /\ [k \in 0..2 |-> end_idx(k, 4000, 9000) - start_idx(k, 4000)]
              = [k \in 0..2 |-> IF k = 2 THEN 1000 ELSE 4000]
        /\ start_idx(0, 4000) = 0
        /\ \A k \in 0..1 : end_idx(k, 4000, 9000) = start_idx(k + 1, 4000)
        /\ end_idx(2, 4000, 9000) = 9000

\* C5 witness: the loop has ended with three batches, the last one partial.
C5_Witness ==
    /\ mainPc = "collect"
    /\ Len(futures) = 3
    /\ Len(futures[3].batch_df) < batch_size
    /\ Len(futures[1].batch_df) = batch_size

\* C6: when the radar build of a month fails, the failure is logged and the
\* month's variable stays unset; once the radar builder has returned every
\* month whose build did not fail is set; no radar file of the failed month
\* is ever written and every radar export call for it is skipped; export
\* calls for keys whose composite is set are not skipped, and a task that
\* does not raise makes all its calls.
C6_RadarFailureIsolated ==
    \A k \in MonthIdx :
        S1BuildFailed(k) =>
            /\ globals[s1_month_vars[k]] = None
            /\ mainPc \notin {"ee_init", "s1_region", "s1_build"} =>
                  \A j \in MonthIdx :
                     ~S1BuildFailed(j) => globals[s1_month_vars[j]] # None
            /\ \A name \in DOMAIN files :
                  ~(name.sensor = "s1" /\ name.month = Lower(MonthNames[k]))
            /\ \A t \in Tasks :
                  /\ \A n \in 1..Len(futures[t].calls) :
                        LET c == futures[t].calls[n] IN
                        (c.outcome = "skipped") <=>
                           (c.sensor = "s1" /\ \E j \in MonthIdx :
                               c.month = MonthNames[j] /\ S1BuildFailed(j))
                  /\ futures[t].status = "done_ok" =>
                        Len(futures[t].calls) = UnitsPerTask

\* C6 witness: the radar build of September failed, the run is complete, two
\* tasks made all their calls, the radar file of July and the optical file
\* of September exist for both batches, no radar file of September does.
C6_Witness ==
    /\ mainPc = "done"
    /\ S1BuildFailed(3)
    /\ Len(futures) = 2
    /\ \A t \in Tasks : futures[t].status = "done_ok"
    /\ \A b \in 0..1 :
          /\ S1FileName("July", b) \in DOMAIN files
          /\ S1FileName("December", b) \in DOMAIN files
          /\ S2FileName("September", b) \in DOMAIN files
          /\ S1FileName("September", b) \notin DOMAIN files

\* C7: when the region resource is missing or malformed, no composite is
\* ever set and no batch task is ever submitted or run: the run is still
\* starting, has exited, or has been aborted by the failed region load.
C7_RegionFailureAborts ==
    ~regionOk =>
        /\ \A v \in VarNames : globals[v] = None
        /\ futures = <<>>
        /\ files = <<>>
        /\ mainPc \in {"ee_init", "exited", "s1_region", "s2_region", "aborted"}
        /\ mainPc = "aborted" => crash = Exc("Exception", "region", "-", -1)

\* C7 witness: the region load failed and the run has been aborted.
C7_Witness ==
    /\ ~regionOk
    /\ mainPc = "aborted"
    /\ LogRec("Failed to load GeoJSON", "-", -1, "Exception") \in log

\* C8: the run is reported complete only when every batch of the input has
\* been submitted and every submitted task has finished, with its result
\* taken by the result loop and its exception, if any, logged; and a run
\* that has entered the submit loop eventually reports completion.
C8_CompleteAfterAllTasks ==
    /\ [](mainPc = "done" =>
            /\ Len(futures) = CeilDiv(Len(df_input), batch_size)
            /\ \A t \in Tasks :
                  /\ Finished(t)
                  /\ futures[t].collected
                  /\ futures[t].status = "done_exc" =>
                        LogRec("Error in batch processing", futures[t].exc.month,
                               futures[t].exc.batch, futures[t].exc.type) \in log)
    /\ (mainPc = "submit") ~> (mainPc = "done")

\* C8 witness: the run is complete with two tasks, one of which failed.
C8_Witness ==
    /\ mainPc = "done"
    /\ Len(futures) = 2
    /\ futures[1].status = "done_exc"
    /\ futures[2].status = "done_ok"

Sensors == {"s1", "s2"}

\* The calls of task t for one (sensor, month).
CallsFor(t, sensor, month) ==
    {n \in 1..Len(futures[t].calls) :
        futures[t].calls[n].sensor = sensor /\ futures[t].calls[n].month = month}

\* C9 (as claimed): every task that has finished has made exactly twelve
\* export calls, one per (sensor, month).
C9_TwelveCallsPerTask ==
    \A t \in Tasks :
        Finished(t) =>
            /\ Len(futures[t].calls) = 12
            /\ \A sensor \in Sensors : \A m \in MonthIdx :
                  Cardinality(CallsFor(t, sensor, MonthNames[m])) = 1

\* C9 (amended): the calls of a task are, month by month in list order, the
\* radar call and then the optical call, each with the task's own feature
\* collection and batch index and each (sensor, month) at most once; a task
\* that finishes without an exception has made exactly twelve calls, one per
\* (sensor, month); a task ended by an exception has made only the calls up
\* to the one that raised.
C9_CallsInOrderOncePerUnit ==
    \A t \in Tasks :
        /\ Len(futures[t].calls) <= 12
        /\ \A n \in 1..Len(futures[t].calls) :
              LET c == futures[t].calls[n] IN
              /\ c.sensor = (IF n % 2 = 1 THEN "s1" ELSE "s2")
              /\ c.month = MonthNames[(n + 1) \div 2]
              /\ c.batch_idx = t - 1
              /\ c.fc = Features(futures[t].batch_df)
              /\ \A j \in 1..Len(c.fc) :
                    c.fc[j].id = (t - 1) * batch_size + j - 1
        /\ \A sensor \in Sensors : \A m \in MonthIdx :
              Cardinality(CallsFor(t, sensor, MonthNames[m])) <= 1
        /\ futures[t].status = "done_ok" =>
              /\ Len(futures[t].calls) = 12
              /\ \A sensor \in Sensors : \A m \in MonthIdx :
                    Cardinality(CallsFor(t, sensor, MonthNames[m])) = 1
        /\ futures[t].status = "done_exc" =>
              \/ futures[t].calls = <<>>
              \/ futures[t].calls[Len(futures[t].calls)].outcome = futures[t].exc.type
              \/ futures[t].exc.sensor = "features"

\* C9 witness: two tasks have each made their twelve calls, each with its
\* own batch index and its own feature collection.
C9_Witness ==
    /\ Len(futures) = 2
    /\ \A t \in Tasks :
          /\ futures[t].status = "done_ok"
          /\ Len(futures[t].calls) = 12
    /\ futures[1].calls[12].fc # futures[2].calls[12].fc
    /\ futures[1].calls[12].batch_idx # futures[2].calls[12].batch_idx

\* The export calls of the run that wrote a file, as <<task, call number>>.
WritingCalls ==
    UNION {{<<t, n>> : n \in {n \in 1..Len(futures[t].calls) :
                                futures[t].calls[n].outcome = "ok"}} : t \in Tasks}

\* C10: every file has been written exactly once, by exactly one export
\* call, whose sensor, month and batch index, with the year of the run, make
\* up its name and whose batch its rows come from; and every call that wrote has a file
\* of its own, so that no two (sensor, month, batch) units, of one task or of
\* two tasks running at the same time, share a file name.
C10_OneFilePerUnit ==
    LET wc == WritingCalls
        nameOf == [tn \in wc |-> CallFile(futures[tn[1]].calls[tn[2]])]
    IN  /\ \A name \in DOMAIN files :
              /\ files[name].writes = 1
              /\ name.year = year
              /\ \E tn \in wc : nameOf[tn] = name
        /\ \A tn \in wc :
              LET c == futures[tn[1]].calls[tn[2]] IN
              /\ nameOf[tn] \in DOMAIN files
              /\ nameOf[tn].sensor = c.sensor
              /\ nameOf[tn].month = Lower(c.month)
              /\ nameOf[tn].batch = c.batch_idx
              /\ \A r \in 1..Len(files[nameOf[tn]].rows) :
                    \E j \in 1..Len(c.fc) : files[nameOf[tn]].rows[r].id = c.fc[j].id
        /\ Cardinality(DOMAIN files) = Cardinality(wc)

\* C10 witness: two tasks are running at the same time and each has written
\* its own radar file of July.
C10_Witness ==
    /\ Len(futures) = 2
    /\ \A t \in Tasks : futures[t].status = "running"
    /\ S1FileName("July", 0) \in DOMAIN files
    /\ S1FileName("July", 1) \in DOMAIN files

\* C11 (as claimed): with one input coordinate, one batch and a month whose
\* two composites are built, the radar file and the optical file of that
\* month each hold exactly one row, and that row carries the id, the
\* longitude and the latitude of the input coordinate unchanged.
C11_OneRowPerCoordinateUnchanged ==
    (mainPc = "done" /\ Len(df_input) = 1 /\ Len(futures) = 1) =>
        \A k \in MonthIdx :
            (globals[s1_month_vars[k]] # None /\ globals[s2_month_vars[k]] # None) =>
                \A name \in {S1FileName(MonthNames[k], 0), S2FileName(MonthNames[k], 0)} :
                    /\ name \in DOMAIN files
                    /\ Len(files[name].rows) = 1
                    /\ files[name].rows[1].id = df_input[1].index
                    /\ files[name].rows[1].Longitude = df_input[1].Longitude
                    /\ files[name].rows[1].Latitude = df_input[1].Latitude

\* The rows of the radar files written so far.
RadarRows ==
    UNION {{files[name].rows[k] : k \in 1..Len(files[name].rows)} :
              name \in {f \in DOMAIN files : f.sensor = "s1"}}

\* C12: in every row of a radar file, VV and VH are the per-pixel medians of
\* the band values of the scenes as the archive delivers them (no unit
\* conversion), and VH_VV is VH divided by VV of that median composite, not
\* the median of the ratios of the scenes; for a composite pixel with
\* VV = -12 and VH = -18 the ratio is exactly 3/2.
C12_RatioOfMedians ==
    \A row \in RadarRows :
        /\ row.VV = Median([k \in 1..Len(catalog.s1) |-> catalog.s1[k].VV])
        /\ row.VH = Median([k \in 1..Len(catalog.s1) |-> catalog.s1[k].VH])
        /\ row.VH_VV[1] * row.VV[1] * row.VH[2] = row.VH[1] * row.VH_VV[2] * row.VV[2]
        /\ (row.VV = <<-12, 1>> /\ row.VH = <<-18, 1>>) => row.VH_VV = <<3, 2>>

\* A radar row with VV = -12, VH = -18 and ratio 3/2 has been written from an
\* archive of three different scenes.
C12_Witness ==
    /\ Len(catalog.s1) = 3
    /\ Cardinality({catalog.s1[k] : k \in 1..3}) = 3
    /\ \E row \in RadarRows :
          row.VV = <<-12, 1>> /\ row.VH = <<-18, 1>> /\ row.VH_VV = <<3, 2>>

\* The rows of the optical files written so far.
OpticalRows ==
    UNION {{files[name].rows[k] : k \in 1..Len(files[name].rows)} :
              name \in {f \in DOMAIN files : f.sensor = "s2"}}

\* The rational r in units of 0.0001, rounded half up.
Round4(r) == (2 * 10000 * r[1] + r[2]) \div (2 * r[2])

\* x = num / den for rationals with den # 0.
IsQuotient(x, num, den) == RMul(x, den) = num

\* C13: every row of an optical file carries the seven indices of the bands
\* of the masked median composite (the per-band median of the scenes that
\* the mask leaves visible at the pixel), each by the formula of the table,
\* and never the index of a single scene; for NIR = 0.5, RED = 0.1,
\* BLUE = 0.05, GREEN = 0.2, REDEDGE = 0.3, SWIR1 = 0.15 NDVI is 0.6667
\* within 0.0001 and EVI, GNDVI, SAVI, NDWI, NDMI, RENDVI are 0.5797, 0.4286,
\* 0.5455, -0.4286, 0.5385, 0.5000 to four decimals.
C13_IndicesOfMaskedMedian ==
    \A row \in OpticalRows :
        LET image == S2MedianImage(catalog.s2)
            NIR == image["B8"]
            RED == image["B4"]
            BLUE == image["B2"]
            GREEN == image["B3"]
            REDEDGE == image["B5"]
            SWIR1 == image["B11"]
        IN  /\ image # None
            /\ IsQuotient(row.NDVI, RSub(NIR, RED), RAdd(NIR, RED))
            /\ IsQuotient(row.EVI, RMul(Frac(5, 2), RSub(NIR, RED)),
                          RAdd(RSub(RAdd(NIR, RMul(R(6), RED)),
                                    RMul(Frac(15, 2), BLUE)), R(1)))
            /\ IsQuotient(row.GNDVI, RSub(NIR, GREEN), RAdd(NIR, GREEN))
            /\ IsQuotient(row.SAVI, RMul(Frac(3, 2), RSub(NIR, RED)),
                          RAdd(RAdd(NIR, RED), Frac(1, 2)))
            /\ IsQuotient(row.NDWI, RSub(GREEN, NIR), RAdd(GREEN, NIR))
            /\ IsQuotient(row.NDMI, RSub(NIR, SWIR1), RAdd(NIR, SWIR1))
            /\ IsQuotient(row.RENDVI, RSub(REDEDGE, RED), RAdd(REDEDGE, RED))
            /\ (NIR = <<1, 2>> /\ RED = <<1, 10>> /\ BLUE = <<1, 20>> /\
                GREEN = <<1, 5>> /\ REDEDGE = <<3, 10>> /\ SWIR1 = <<3, 20>>) =>
                   /\ Abs(Round4(row.NDVI) - 6667) <= 1
                   /\ Round4(row.NDVI) = 6667
                   /\ Round4(row.EVI) = 5797
                   /\ Round4(row.GNDVI) = 4286
                   /\ Round4(row.SAVI) = 5455
                   /\ Round4(row.NDWI) = -4286
                   /\ Round4(row.NDMI) = 5385
                   /\ Round4(row.RENDVI) = 5000

\* An optical row with NDVI 2/3 has been written from an archive of three
\* scenes of which one is hidden by the mask and none has NIR = 0.5 together
\* with RED = 0.1, the composite having these two values.
C13_Witness ==
    /\ Len(catalog.s2) = 3
    /\ \E k \in 1..3 : ~Visible(catalog.s2[k], SamplePixel)
    /\ \A k \in 1..3 : catalog.s2[k].bands # SampleBands
    /\ S2MedianImage(catalog.s2) = SampleBands
    /\ \E row \in OpticalRows : row.NDVI = <<2, 3>>

\* The cloud flag or the shadow flag of the scene is 1 at pixel p, before
\* the erosion and the dilation.
Flagged(img, p) == img.probability[p] > 70 \/ img.shadows[p] = 1

\* The optical files of a finished run hold one row when the only scene of
\* the archive is part of the median input at the sampled pixel, and no row
\* when it is not.
RowsShowInput(included) ==
    \A name \in {f \in DOMAIN files : f.sensor = "s2"} :
        Len(files[name].rows) = IF included THEN 1 ELSE 0

\* C14 (as claimed): for every scene and pixel, a pixel whose cloud flag or
\* shadow flag is 1 before the morphology is excluded from that scene's input
\* to the median, and a pixel with both flags 0 is included.
C14_FlagsDecideInclusion ==
    mainPc = "done" =>
        /\ \A k \in 1..Len(catalog.s2), p \in Pixels :
              Flagged(catalog.s2[k], p) <=> ~Visible(catalog.s2[k], p)
        /\ Len(catalog.s2) = 1 =>
              RowsShowInput(~Flagged(catalog.s2[1], SamplePixel))

\* C14 (amended): a pixel is excluded from a scene's input to the median
\* exactly when the mask after the morphology is 1 there, that is when some
\* pixel q within 4 pixels of it has every pixel within 2 pixels of q flagged
\* as cloud or shadow; a flagged pixel outside such an area is included and
\* an unflagged pixel within 4 pixels of one is excluded.
C14_MaskAfterMorphology ==
    mainPc = "done" =>
        LET Buffered(img, p) ==
                \E q \in Pixels :
                    /\ Abs(q - p) <= 4
                    /\ \A r \in Pixels : Abs(r - q) <= 2 => Flagged(img, r)
        IN  /\ \A k \in 1..Len(catalog.s2), p \in Pixels :
                  Buffered(catalog.s2[k], p) <=> ~Visible(catalog.s2[k], p)
            /\ Len(catalog.s2) = 1 =>
                  RowsShowInput(~Buffered(catalog.s2[1], SamplePixel))

\* A finished run whose only scene is flagged at the sampled pixel and has
\* been part of the median input there (the optical files hold its row),
\* while another pixel of the scene is unflagged and hidden.
C14_Witness ==
    /\ mainPc = "done"
    /\ Len(catalog.s2) = 1
    /\ Flagged(catalog.s2[1], SamplePixel)
    /\ Visible(catalog.s2[1], SamplePixel)
    /\ \E name \in DOMAIN files : name.sensor = "s2" /\ Len(files[name].rows) = 1
    /\ \E p \in Pixels : ~Flagged(catalog.s2[1], p) /\ ~Visible(catalog.s2[1], p)

\* The module variable that an export call of the given sensor and month
\* reads.
CallVar(c) == IF c.sensor = "s1" THEN S1MonthVars[c.month] ELSE S2MonthVars[c.month]

\* The record an exporter logs when the composite of the month is unset.
NotInitializedLog(c) ==
    LogRec(IF c.sensor = "s1" THEN "Sentinel-1 image not initialized"
           ELSE "Sentinel-2 image not initialized", c.month, -1, "-")

\* C15: a composite variable, once set, is never written again, and is
\* written only by a step of its builder, never by a step of a batch task
\* (an export call); every export call that went on to sample found its
\* composite set, and every export call that found it unset logged that,
\* returned without sampling, and wrote no file.
C15_CompositesWrittenOnceReadOnly ==
    /\ [][/\ \A v \in VarNames : globals[v] # None => globals'[v] = globals[v]
          /\ Cardinality({v \in VarNames : globals'[v] # globals[v]}) <= 1
          /\ globals' # globals => mainPc \in {"s1_build", "s2_build"}
          /\ futures' # futures => globals' = globals]_vars
    /\ [](\A t \in Tasks : \A n \in 1..Len(futures[t].calls) :
            LET c == futures[t].calls[n]
            IN  /\ c.outcome # "skipped" => globals[CallVar(c)] # None
                /\ globals[CallVar(c)] = None =>
                      /\ c.outcome = "skipped"
                      /\ NotInitializedLog(c) \in log
                      /\ CallFile(c) \notin DOMAIN files
                      /\ n < Len(futures[t].calls) \/ futures[t].status # "done_exc")

\* A task has called the radar exporter for a month whose composite is unset
\* and gone on to the optical exporter of that month, which sampled and
\* wrote its file.
C15_Witness ==
    \E t \in Tasks : \E n \in 1..(Len(futures[t].calls) - 1) :
        LET c == futures[t].calls[n]
            d == futures[t].calls[n + 1]
        IN  /\ globals[CallVar(c)] = None
            /\ c.outcome = "skipped"
            /\ globals[CallVar(d)] # None
            /\ d.outcome = "ok"
            /\ CallFile(d) \in DOMAIN files

\* C16: at every moment at most 4 batch tasks are executing, whatever the
\* number of batches, and a submitted task starts only at a moment when
\* fewer than 4 are executing: until then it waits in the queue.
C16_AtMostFourRunning ==
    /\ [](Cardinality({t \in Tasks : futures[t].status = "running"}) <= 4)
    /\ [][\A t \in Tasks :
            (futures[t].status = "pending" /\ futures'[t].status # "pending") =>
                Cardinality({u \in Tasks : futures[u].status = "running"}) < 4]_vars

\* Five tasks have been submitted; the fifth has waited until one of the
\* first four finished, and is now executing with the three others.
C16_Witness ==
    /\ Len(futures) = 5
    /\ futures[5].status = "running"
    /\ Cardinality({t \in Tasks : futures[t].status = "running"}) = 4
    /\ Cardinality({t \in Tasks : futures[t].status = "done_ok"}) = 1

\* C17 (as claimed): no unit of work is attempted twice in a run: a task
\* calls an exporter at most once per (sensor, month), no file is written
\* twice, and no batch is submitted twice; and no failure reaches the process
\* boundary except a failure to load the region or to open the backend
\* session: every other failure is logged and the run goes on.
C17_NoRetryFailuresLogged ==
    /\ \A t \in Tasks : \A sensor \in Sensors : \A m \in MonthIdx :
          Cardinality(CallsFor(t, sensor, MonthNames[m])) <= 1
    /\ \A name \in DOMAIN files : files[name].writes <= 1
    /\ \A t \in Tasks : \A u \in Tasks :
          futures[t].batch_idx = futures[u].batch_idx => t = u
    /\ \A t \in Tasks :
          (futures[t].status = "done_exc" /\ futures[t].collected) =>
              LogRec("Error in batch processing", futures[t].exc.month,
                     futures[t].exc.batch, futures[t].exc.type) \in log
    /\ crash # NoExc => crash.sensor = "region"
    /\ mainPc = "aborted" => ~regionOk

\* The last day of the range of each month.
LastDay ==
    [m \in {"07", "08", "10", "12"} |-> 31] @@ [m \in {"09", "11"} |-> 30]

\* C18: every composite that is set, radar or optical, of each month 07..12
\* was filtered to the range that starts on day 01 of the month of 2019 and
\* ends on day 30 for months 09 and 11 and on day 31 for months 07, 08, 10
\* and 12; the radar and the optical composite of a month have the same
\* range.
C18_MonthRanges ==
    \A k \in MonthIdx :
        LET s1_img == globals[s1_month_vars[k]]
            s2_img == globals[s2_month_vars[k]]
        IN  /\ \A img \in {s1_img, s2_img} \ {None} :
                  /\ img.start = <<2019, months[k], 1>>
                  /\ img.end = <<2019, months[k], LastDay[months[k]]>>
            /\ (s1_img # None /\ s2_img # None) =>
                  (s1_img.start = s2_img.start /\ s1_img.end = s2_img.end)

\* The twelve composites are set; those of September and November end on day
\* 30, those of July, August, October and December on day 31.
C18_Witness ==
    /\ \A v \in VarNames : globals[v] # None
    /\ globals["september_s1"].end[3] = 30 /\ globals["september_s2"].end[3] = 30
    /\ globals["november_s1"].end[3] = 30 /\ globals["november_s2"].end[3] = 30
    /\ globals["july_s1"].end[3] = 31 /\ globals["december_s2"].end[3] = 31

====
